---- MODULE Spec2Model ----
(***************************************************************************)
(* Rule-based Turkish sentiment analysis: lexicon lookup plus a predicate  *)
(* negation heuristic (analyze_sentiment), the evaluation harness built on *)
(* it (evaluate_model) and the metrics computed in main.                   *)
(*                                                                         *)
(* The tokenizer and the morphological analyser are an external library.   *)
(* A sentence is therefore modelled by what that library yields for it:    *)
(* the stage at which it raises (if any), the number of tokens the         *)
(* tokenizer keeps, and the sequence of analyses returned by               *)
(* analyze_and_disambiguate(...).best_analysis().                          *)
(*                                                                         *)
(* Two specifications share the variables:                                 *)
(*   SpecScore  main's interactive loop: load lexicons, analyse sentences  *)
(*   Spec       main's evaluation: load lexicons, read the labelled data,  *)
(*              run evaluate_model row by row, compute the metrics         *)
(* Python's float division is modelled by exact fractions in lowest terms. *)
(***************************************************************************)
EXTENDS Integers, Sequences, FiniteSets, TLC

VARIABLES pc, positive_dict, negative_dict, user_input, analysis,
          test_data, i, results, metrics

vars == <<pc, positive_dict, negative_dict, user_input, analysis,
          test_data, i, results, metrics>>

-----------------------------------------------------------------------------
(* Bounds *)

\* longest token list / analysis list of a sentence typed at the prompt
MaxTokens == 2
\* largest number of rows of the labelled data set
MaxCases == 2

-----------------------------------------------------------------------------
(* Values *)

POS_LABEL == "Pozitif"
NEG_LABEL == "Negatif"
\* a label value outside the two-class vocabulary (nothing in the code rejects it)
Labels == {POS_LABEL, NEG_LABEL, "Notr"}

\* Python's None where the code stores a predicate_info dict or None
None == [none |-> TRUE]

\* str.lower() on the strings of the model
Lower(s) ==
    CASE s = "Iyi" -> "iyi"
      [] s = "Kotu" -> "kotu"
      [] OTHER -> s

\* the empty dict
EmptyDict == [k \in {} |-> 0]

RECURSIVE GCD(_, _)
GCD(a, b) == IF b = 0 THEN a ELSE GCD(b, a % b)

\* the value a raising division leaves behind (ZeroDivisionError)
DivError == [num |-> 1, den |-> 0]

\* Python's n / d on non-negative numbers, as a fraction in lowest terms
Divide(n, d) ==
    IF d = 0 THEN DivError
    ELSE LET g == GCD(n, d) IN [num |-> n \div g, den |-> d \div g]

\* the int 0 the code uses in place of a ratio
Zero == [num |-> 0, den |-> 1]

-----------------------------------------------------------------------------
(* What the external library returns *)

\* morpheme tag sequences of one analysis, as rendered by str(analysis)
TagSeqs == { <<"Noun">>, <<"Verb">>, <<"Verb", "Neg">>, <<"Adj", "Neg">> }

\* dictionary items: a root, or no root and a normalized form (possibly empty)
Items == { [root |-> "iyi", norm |-> "iyi"],
           [root |-> "kotu", norm |-> "kotu"],
           [root |-> "film", norm |-> "film"],
           [root |-> "", norm |-> "Iyi"],
           [root |-> "", norm |-> ""] }

Analyses == { [root |-> it.root, norm |-> it.norm, tags |-> t] : it \in Items, t \in TagSeqs }

SeqsUpTo(S, n) == UNION { [1..k -> S] : k \in 0..n }

\* stages of the try block at which the library (or the input) can raise
FailStages == {"preprocess", "tokenize", "analyze", "read"}

FailingSentences == { [fail |-> f, tokens |-> 0, results |-> <<>>] : f \in FailStages }

Sentences ==
    FailingSentences \cup
    { [fail |-> "none", tokens |-> n, results |-> r] :
        n \in 0..MaxTokens, r \in SeqsUpTo(Analyses, MaxTokens) }

-----------------------------------------------------------------------------
(* data_preprocessing.preprocess_txt_words *)

\* A word file: whether reading/analysing it raises, and the root the analyser
\* yields for each non-blank line ("" where the analysis has no root).
PositiveFiles == { [fail |-> TRUE, words |-> <<>>],
                   [fail |-> FALSE, words |-> <<"Iyi", "">>],
                   [fail |-> FALSE, words |-> <<"iyi", "film", "iyi">>] }

NegativeFiles == { [fail |-> FALSE, words |-> <<"kotu">>],
                   [fail |-> FALSE, words |-> <<"Kotu", "film">>] }

\* roots = set(); roots.add(root.lower()) for every non-empty root;
\* {root: 1 for root in roots}; {} when anything raised
preprocess_txt_words(file) ==
    IF file.fail THEN EmptyDict
    ELSE LET roots == { Lower(file.words[k]) :
                          k \in { j \in 1..Len(file.words) : file.words[j] # "" } }
         IN [root \in roots |-> 1]

-----------------------------------------------------------------------------
(* sentiment_analysis.analyze_sentiment *)

\* str(analysis): the lemma followed by the morpheme tags
Str(a) == <<a.root>> \o a.tags

\* 'Verb' in morphemes / 'Neg' in morphemes
Contains(morphemes, tag) == \E k \in 1..Len(morphemes) : morphemes[k] = tag

\* for analysis in reversed(results): ... break at the first verb
RECURSIVE ScanReversed(_, _)
ScanReversed(res, k) ==
    IF k = 0 THEN None
    ELSE IF Contains(Str(res[k]), "Verb")
         THEN [root |-> res[k].root,
               is_negative |-> Contains(Str(res[k]), "Neg"),
               full_analysis |-> Str(res[k])]
         ELSE ScanReversed(res, k - 1)

\* a plausible slip: iterating results instead of reversed(results)
RECURSIVE ScanForward(_, _, _)
ScanForward(res, k, n) ==
    IF k > n THEN None
    ELSE IF Contains(Str(res[k]), "Verb")
         THEN [root |-> res[k].root,
               is_negative |-> Contains(Str(res[k]), "Neg"),
               full_analysis |-> Str(res[k])]
         ELSE ScanForward(res, k + 1, n)

FindPredicateFirstVerb(res) == ScanForward(res, 1, Len(res))

\* predicate_info after the reversed loop
FindPredicate(res) == ScanReversed(res, Len(res))

\* predicate_multiplier after the reversed loop
PredicateMultiplier(predicate_info) ==
    IF predicate_info # None /\ predicate_info.is_negative THEN (-1) * 1 ELSE 1

\* root = result.item.root or result.item.normalized_form; root.lower() if root else ""
ResolveRoot(result) ==
    LET root == IF result.root # "" THEN result.root ELSE result.norm
    IN IF root # "" THEN Lower(root) ELSE ""

\* a plausible slip: the negative branch forgets the predicate multiplier
MatchWordNoFlipOnNegative(acc, result, mult, pdict, ndict) ==
    LET root == ResolveRoot(result) IN
    IF root \in DOMAIN pdict
    THEN [acc EXCEPT !.score = @ + pdict[root] * mult,
                     !.confidence = @ + 1,
                     !.positive_words = Append(@, root)]
    ELSE IF root \in DOMAIN ndict
    THEN [acc EXCEPT !.score = @ + ndict[root] * (-1),
                     !.confidence = @ + 1,
                     !.negative_words = Append(@, root)]
    ELSE acc

\* a plausible slip: every analysis counts towards the confidence
MatchWordCountsAll(acc, result, mult, pdict, ndict) ==
    LET root == ResolveRoot(result) IN
    IF root \in DOMAIN pdict
    THEN [acc EXCEPT !.score = @ + pdict[root] * mult,
                     !.confidence = @ + 1,
                     !.positive_words = Append(@, root)]
    ELSE IF root \in DOMAIN ndict
    THEN [acc EXCEPT !.score = @ + ndict[root] * mult * (-1),
                     !.confidence = @ + 1,
                     !.negative_words = Append(@, root)]
    ELSE [acc EXCEPT !.confidence = @ + 1]

\* one iteration of "for result in results"
MatchWord(acc, result, mult, pdict, ndict) ==
    LET root == ResolveRoot(result) IN
    IF root \in DOMAIN pdict
    THEN [acc EXCEPT !.score = @ + pdict[root] * mult,
                     !.confidence = @ + 1,
                     !.positive_words = Append(@, root)]
    ELSE IF root \in DOMAIN ndict
    THEN [acc EXCEPT !.score = @ + ndict[root] * mult * (-1),
                     !.confidence = @ + 1,
                     !.negative_words = Append(@, root)]
    ELSE acc

\* the loop "for result in results", from score = 0, confidence = 0
RECURSIVE MatchWords(_, _, _, _, _)
MatchWords(res, k, mult, pdict, ndict) ==
    IF k = 0
    THEN [score |-> 0, confidence |-> 0, positive_words |-> <<>>, negative_words |-> <<>>]
    ELSE MatchWord(MatchWords(res, k - 1, mult, pdict, ndict), res[k], mult, pdict, ndict)

\* dict(found_features): a defaultdict(list) holds a key only once it was used
Features(predicate_info, acc) ==
    LET keys == (IF predicate_info # None THEN {"predicate"} ELSE {})
                \cup (IF acc.positive_words # <<>> THEN {"positive_words"} ELSE {})
                \cup (IF acc.negative_words # <<>> THEN {"negative_words"} ELSE {})
    IN [k \in keys |->
          IF k = "predicate"
          THEN << [root |-> predicate_info.root,
                   is_negative |-> predicate_info.is_negative,
                   analysis |-> predicate_info.full_analysis] >>
          ELSE IF k = "positive_words" THEN acc.positive_words
          ELSE acc.negative_words]

\* a plausible slip: ">= 0" in the first comparison
SentimentOfNonNegative(score) ==
    IF score >= 0 THEN "Positive"
    ELSE IF score < 0 THEN "Negative"
    ELSE "Neutral"

\* if score > 0 ... elif score < 0 ... else
SentimentOf(score) ==
    IF score > 0 THEN "Positive"
    ELSE IF score < 0 THEN "Negative"
    ELSE "Neutral"

\* the dict returned by the except branch
ErrorResult ==
    [sentiment |-> "Error", score |-> 0, confidence |-> Zero,
     features |-> EmptyDict, predicate_analysis |-> None]

\* analyze_sentiment(sentence, morphology, positive_dict, negative_dict)
analyze_sentiment(sentence, pdict, ndict) ==
    IF sentence.fail # "none" THEN ErrorResult
    ELSE
      LET res == sentence.results
          predicate_info == FindPredicate(res)
          predicate_multiplier == PredicateMultiplier(predicate_info)
          acc == MatchWords(res, Len(res), predicate_multiplier, pdict, ndict)
          confidence_score ==
              IF sentence.tokens # 0 THEN Divide(acc.confidence, sentence.tokens) ELSE Zero
      IN [sentiment |-> SentimentOf(acc.score),
          score |-> acc.score,
          confidence |-> confidence_score,
          features |-> Features(predicate_info, acc),
          predicate_analysis |-> predicate_info]

-----------------------------------------------------------------------------
(* sentiment_analysis.evaluate_model *)

\* the accumulator built at the top of evaluate_model
NewResults ==
    [DP |-> 0, DN |-> 0, YP |-> 0, YN |-> 0,
     predictions |-> <<>>, wrong_predictions |-> <<>>]

\* the dict appended to wrong_predictions
WrongEntry(sentence, true_label, an) ==
    [text |-> sentence, true_label |-> true_label,
     predicted |-> an.sentiment, confidence |-> an.confidence]

\* a plausible slip: the two arms of the Neutral branch exchanged
CountCaseNeutralSwapped(res, sentence, true_label, an) ==
    LET prediction == an.sentiment
        wrong == Append(res.wrong_predictions, WrongEntry(sentence, true_label, an))
    IN
    IF prediction = "Positive" /\ true_label = "Pozitif"
    THEN [res EXCEPT !.DP = @ + 1]
    ELSE IF prediction = "Negative" /\ true_label = "Negatif"
    THEN [res EXCEPT !.DN = @ + 1]
    ELSE IF prediction = "Positive" /\ true_label = "Negatif"
    THEN [res EXCEPT !.YP = @ + 1, !.wrong_predictions = wrong]
    ELSE IF prediction = "Negative" /\ true_label = "Pozitif"
    THEN [res EXCEPT !.YN = @ + 1, !.wrong_predictions = wrong]
    ELSE IF prediction = "Neutral"
    THEN IF true_label = "Pozitif"
         THEN [res EXCEPT !.YP = @ + 1, !.wrong_predictions = wrong]
         ELSE [res EXCEPT !.YN = @ + 1, !.wrong_predictions = wrong]
    ELSE res

\* the if/elif chain of one loop iteration
CountCase(res, sentence, true_label, an) ==
    LET prediction == an.sentiment
        wrong == Append(res.wrong_predictions, WrongEntry(sentence, true_label, an))
    IN
    IF prediction = "Positive" /\ true_label = "Pozitif"
    THEN [res EXCEPT !.DP = @ + 1]
    ELSE IF prediction = "Negative" /\ true_label = "Negatif"
    THEN [res EXCEPT !.DN = @ + 1]
    ELSE IF prediction = "Positive" /\ true_label = "Negatif"
    THEN [res EXCEPT !.YP = @ + 1, !.wrong_predictions = wrong]
    ELSE IF prediction = "Negative" /\ true_label = "Pozitif"
    THEN [res EXCEPT !.YN = @ + 1, !.wrong_predictions = wrong]
    ELSE IF prediction = "Neutral"
    THEN IF true_label = "Pozitif"
         THEN [res EXCEPT !.YN = @ + 1, !.wrong_predictions = wrong]
         ELSE [res EXCEPT !.YP = @ + 1, !.wrong_predictions = wrong]
    ELSE res

\* a plausible slip: a "continue" for failed analyses before the append
AppendPredictionSkipError(res, sentence, true_label, an) ==
    IF an.sentiment = "Error" THEN res
    ELSE [res EXCEPT !.predictions =
            Append(@, [text |-> sentence, true_label |-> true_label,
                       predicted |-> an.sentiment, confidence |-> an.confidence,
                       features |-> an.features])]

\* results['predictions'].append({...}) at the end of the iteration
AppendPrediction(res, sentence, true_label, an) ==
    [res EXCEPT !.predictions =
        Append(@, [text |-> sentence, true_label |-> true_label,
                   predicted |-> an.sentiment, confidence |-> an.confidence,
                   features |-> an.features])]

\* one iteration of "for sentence, true_label in test_data"
EvaluateCase(res, sentence, true_label, pdict, ndict) ==
    LET an == analyze_sentiment(sentence, pdict, ndict)
    IN AppendPrediction(CountCase(res, sentence, true_label, an), sentence, true_label, an)

-----------------------------------------------------------------------------
(* main: the metrics *)

RMul(a, b) == Divide(a.num * b.num, a.den * b.den)
RAdd(a, b) == Divide(a.num * b.den + b.num * a.den, a.den * b.den)
RDiv(a, b) == Divide(a.num * b.den, a.den * b.num)
Two == [num |-> 2, den |-> 1]

Total(res) == res.DP + res.DN + res.YP + res.YN

Accuracy(res) ==
    IF Total(res) > 0 THEN Divide(res.DP + res.DN, Total(res)) ELSE Zero

\* a plausible slip: precision guarded by the total instead of its own denominator
PrecisionGuardedByTotal(res) ==
    IF Total(res) > 0 THEN Divide(res.DP, res.DP + res.YP) ELSE Zero

Precision(res) ==
    IF (res.DP + res.YP) > 0 THEN Divide(res.DP, res.DP + res.YP) ELSE Zero

Recall(res) ==
    IF (res.DP + res.YN) > 0 THEN Divide(res.DP, res.DP + res.YN) ELSE Zero

F1(precision, recall) ==
    IF RAdd(precision, recall).num > 0
    THEN RDiv(RMul(RMul(Two, precision), recall), RAdd(precision, recall))
    ELSE Zero

-----------------------------------------------------------------------------
(* The labelled data set *)

An(root, tags) == [root |-> root, norm |-> root, tags |-> tags]

\* the sentences of the labelled data: what the library yields for each
DataSentences ==
    { [fail |-> "none", tokens |-> 2,
       results |-> <<An("iyi", <<"Adj", "Neg">>), An("film", <<"Noun">>)>>],
      [fail |-> "none", tokens |-> 2,
       results |-> <<An("kotu", <<"Noun">>), An("film", <<"Noun">>)>>],
      [fail |-> "none", tokens |-> 2,
       results |-> <<An("iyi", <<"Noun">>), An("film", <<"Verb", "Neg">>)>>],
      [fail |-> "none", tokens |-> 2,
       results |-> <<An("iyi", <<"Noun">>), An("kotu", <<"Verb">>)>>],
      [fail |-> "none", tokens |-> 1,
       results |-> <<[root |-> "", norm |-> "", tags |-> <<"Noun">>]>>],
      [fail |-> "none", tokens |-> 0, results |-> <<>>],
      [fail |-> "preprocess", tokens |-> 0, results |-> <<>>] }

Rows == DataSentences \X Labels

-----------------------------------------------------------------------------
(* State machine *)

Init ==
    /\ pc = "start"
    /\ positive_dict = EmptyDict
    /\ negative_dict = EmptyDict
    /\ user_input = None
    /\ analysis = None
    /\ test_data = <<>>
    /\ i = 0
    /\ results = NewResults
    /\ metrics = None

\* main: positive_dict / negative_dict = preprocess_txt_words(...)
LoadLexicons ==
    /\ pc = "start"
    /\ \E pf \in PositiveFiles, nf \in NegativeFiles :
         /\ positive_dict' = preprocess_txt_words(pf)
         /\ negative_dict' = preprocess_txt_words(nf)
    /\ pc' = "loaded"
    /\ UNCHANGED <<user_input, analysis, test_data, i, results, metrics>>

\* main: one non-blank line of the interactive loop is read and analysed
AnalyzeInput ==
    /\ pc = "loaded"
    /\ \E s \in Sentences :
         /\ user_input' = s
         /\ analysis' = analyze_sentiment(s, positive_dict, negative_dict)
    /\ pc' = "analyzed"
    /\ UNCHANGED <<positive_dict, negative_dict, test_data, i, results, metrics>>

\* main: the result is printed and the loop returns to input(); user_input and
\* analysis are overwritten before they are read again, so they are forgotten
NextPrompt ==
    /\ pc = "analyzed"
    /\ pc' = "loaded"
    /\ user_input' = None
    /\ analysis' = None
    /\ UNCHANGED <<positive_dict, negative_dict, test_data, i, results, metrics>>

\* main: the line 'q' ends the interactive loop
Quit ==
    /\ pc = "loaded"
    /\ pc' = "quit"
    /\ UNCHANGED <<positive_dict, negative_dict, user_input, analysis,
                   test_data, i, results, metrics>>

\* main: test_data = list(zip(...)); evaluate_model creates its accumulator
ReadDataset ==
    /\ pc = "loaded"
    /\ test_data' \in SeqsUpTo(Rows, MaxCases)
    /\ i' = 0
    /\ results' = NewResults
    /\ pc' = "evaluate"
    /\ UNCHANGED <<positive_dict, negative_dict, user_input, analysis, metrics>>

\* evaluate_model: one iteration of the loop over test_data
EvaluateStep ==
    /\ pc = "evaluate"
    /\ i < Len(test_data)
    /\ results' = EvaluateCase(results, test_data[i + 1][1], test_data[i + 1][2],
                               positive_dict, negative_dict)
    /\ i' = i + 1
    /\ UNCHANGED <<pc, positive_dict, negative_dict, user_input, analysis,
                   test_data, metrics>>

\* main: evaluate_model has returned; accuracy, precision, recall, f1.
\* A ZeroDivisionError is caught by main's except and ends the run.
ComputeMetrics ==
    /\ pc = "evaluate"
    /\ i = Len(test_data)
    /\ LET accuracy == Accuracy(results)
           precision == Precision(results)
           recall == Recall(results)
           f1 == F1(precision, recall)
           raised == \E m \in {accuracy, precision, recall, f1} : m.den = 0
       IN IF raised
          THEN pc' = "failed" /\ metrics' = metrics
          ELSE /\ pc' = "done"
               /\ metrics' = [Accuracy |-> accuracy, Precision |-> precision,
                              Recall |-> recall, F1 |-> f1]
    /\ UNCHANGED <<positive_dict, negative_dict, user_input, analysis,
                   test_data, i, results>>

Next == LoadLexicons \/ ReadDataset \/ EvaluateStep \/ ComputeMetrics

Spec == Init /\ [][Next]_vars

NextScore == LoadLexicons \/ AnalyzeInput \/ NextPrompt \/ Quit

SpecScore == Init /\ [][NextScore]_vars

-----------------------------------------------------------------------------
(* Properties of analyze_sentiment, checked under SpecScore *)

\* a sentence was analysed and the library did not raise
Scored == pc = "analyzed" /\ user_input.fail = "none"

HasTag(a, tag) == \E j \in 1..Len(a.tags) : a.tags[j] = tag

FeatureList(an, key) == IF key \in DOMAIN an.features THEN an.features[key] ELSE <<>>

RECURSIVE SumWeights(_, _)
SumWeights(words, dict) ==
    IF words = <<>> THEN 0 ELSE dict[Head(words)] + SumWeights(Tail(words), dict)

\* weight of the positive matches minus weight of the negative matches
NetWeight(an) ==
    SumWeights(FeatureList(an, "positive_words"), positive_dict)
      - SumWeights(FeatureList(an, "negative_words"), negative_dict)

MatchCount(an) ==
    Len(FeatureList(an, "positive_words")) + Len(FeatureList(an, "negative_words"))

VerbPositions(res) == { k \in 1..Len(res) : HasTag(res[k], "Verb") }

LastVerb(res) == CHOOSE k \in VerbPositions(res) : \A j \in VerbPositions(res) : j <= k

\* C4: analyze_sentiment is fail-soft: when any stage of the analysis fails the
\* result is exactly {Error, 0, 0, {}, None}; otherwise the sentiment is
\* Positive for score > 0, Negative for score < 0 and Neutral for score = 0;
\* the result always has the five fields.
C4_FailSoft ==
    pc = "analyzed" =>
      /\ DOMAIN analysis = {"sentiment", "score", "confidence", "features", "predicate_analysis"}
      /\ user_input.fail # "none" =>
           /\ analysis.sentiment = "Error"
           /\ analysis.score = 0
           /\ analysis.confidence = Zero
           /\ DOMAIN analysis.features = {}
           /\ analysis.predicate_analysis = None
      /\ user_input.fail = "none" =>
           /\ analysis.score > 0 => analysis.sentiment = "Positive"
           /\ analysis.score < 0 => analysis.sentiment = "Negative"
           /\ analysis.score = 0 => analysis.sentiment = "Neutral"

C4_Witness ==
    /\ pc = "analyzed"
    /\ user_input.fail = "read"
    /\ analysis.sentiment = "Error"

\* the same sentence with the negation marker removed from the selected predicate
Unnegated(sentence) ==
    LET res == sentence.results
        k == LastVerb(res)
    IN [sentence EXCEPT !.results =
          [res EXCEPT ![k] = [res[k] EXCEPT !.tags = SelectSeq(@, LAMBDA t : t # "Neg")]]]

\* C5: when the selected predicate is negated, the score is the arithmetic
\* negation of the score of the same analyses with the predicate not negated,
\* and every match is flipped: a positive-lexicon match contributes -weight, a
\* negative-lexicon match +weight.
C5_NegationFlipsScore ==
    (Scored /\ analysis.predicate_analysis # None /\ analysis.predicate_analysis.is_negative) =>
      /\ analysis.score =
           0 - analyze_sentiment(Unnegated(user_input), positive_dict, negative_dict).score
      /\ analysis.score = 0 - NetWeight(analysis)

C5_Witness ==
    /\ Scored
    /\ analysis.predicate_analysis # None
    /\ analysis.predicate_analysis.is_negative
    /\ FeatureList(analysis, "negative_words") # <<>>
    /\ analysis.score > 0

\* C6: the confidence is matchCount / tokenCount (0 for zero tokens) and lies
\* in [0,1], whatever analyses the library returns for the tokens.
C6_ConfidenceInUnitInterval ==
    Scored =>
      /\ analysis.confidence =
           (IF user_input.tokens = 0 THEN Zero
            ELSE Divide(MatchCount(analysis), user_input.tokens))
      /\ 0 <= analysis.confidence.num
      /\ analysis.confidence.num <= analysis.confidence.den

\* the lexical root of the claim: root if non-empty, else the normalized form, lowercased
LexicalRoot(a) == Lower(IF a.root # "" THEN a.root ELSE a.norm)

NoLexiconMatch(res) ==
    \A k \in 1..Len(res) :
        \/ LexicalRoot(res[k]) = ""
        \/ LexicalRoot(res[k]) \notin (DOMAIN positive_dict \cup DOMAIN negative_dict)

\* C7: a sentence none of whose lexical roots is a key of either lexicon gets
\* confidence 0, score 0 and sentiment Neutral, negated predicate or not.
C7_NoMatchIsNeutral ==
    (Scored /\ NoLexiconMatch(user_input.results)) =>
      /\ analysis.confidence = Zero
      /\ analysis.score = 0
      /\ analysis.sentiment = "Neutral"

C7_Witness ==
    /\ Scored
    /\ NoLexiconMatch(user_input.results)
    /\ user_input.tokens > 0
    /\ Len(user_input.results) > 1
    /\ analysis.predicate_analysis # None
    /\ analysis.predicate_analysis.is_negative
    /\ analysis.sentiment = "Neutral"

\* C9: the predicate is the last verb-tagged analysis; the multiplier is -1 iff
\* that analysis carries the negation marker and +1 otherwise, also when there
\* is no verb (predicate info none); markers on other analyses do not count.
\* The multiplier is read off the score: score = multiplier * net match weight.
C9_PredicateIsLastVerb ==
    Scored =>
      LET res == user_input.results IN
      IF VerbPositions(res) = {}
      THEN /\ analysis.predicate_analysis = None
           /\ analysis.score = NetWeight(analysis)
      ELSE LET sel == res[LastVerb(res)] IN
           /\ analysis.predicate_analysis # None
           /\ analysis.predicate_analysis.root = sel.root
           /\ analysis.predicate_analysis.is_negative = HasTag(sel, "Neg")
           /\ analysis.score =
                (IF HasTag(sel, "Neg") THEN 0 - 1 ELSE 1) * NetWeight(analysis)

C9_Witness ==
    /\ Scored
    /\ Len(user_input.results) = 2
    /\ user_input.results[1].tags = <<"Verb", "Neg">>
    /\ user_input.results[2].tags = <<"Verb">>
    /\ analysis.predicate_analysis.is_negative = FALSE
    /\ analysis.score > 0

-----------------------------------------------------------------------------
(* Properties of evaluate_model and of the metrics, checked under Spec *)

\* an iteration of evaluate_model's loop has just run
Stepped == i' = i + 1

KnownLabel(lab) == lab \in {POS_LABEL, NEG_LABEL}

\* the entry of the test case k in predictions
Entry(res, k) == res.predictions[k]

InWrong(res, e) ==
    \E w \in 1..Len(res.wrong_predictions) :
        /\ res.wrong_predictions[w].text = e.text
        /\ res.wrong_predictions[w].true_label = e.true_label
        /\ res.wrong_predictions[w].predicted = e.predicted

\* C1: a test case whose analysis is Error is counted as incorrect like a
\* Neutral one: YN (FN) grows for a Pozitif label, YP (FP) for a Negatif one;
\* so a finished run over two-class labels has TP+TN+FP+FN = number of cases.
C1_ErrorCountedAsIncorrect ==
    [][ /\ (Stepped /\ Len(results'.predictions) = i'
              /\ Entry(results', i').predicted = "Error") =>
            /\ test_data[i'][2] = POS_LABEL => results'.YN = results.YN + 1
            /\ test_data[i'][2] = NEG_LABEL => results'.YP = results.YP + 1
        /\ (pc' = "done" /\ \A k \in 1..Len(test_data) : KnownLabel(test_data[k][2])) =>
            Total(results') = Len(test_data)
      ]_vars

\* C2: every case predicted Neutral or Error against a Pozitif/Negatif label
\* has an entry in wrong_predictions, and no TP or TN case has one.
C2_WrongPredictionsComplete ==
    \A k \in 1..Len(results.predictions) :
        LET e == Entry(results, k) IN
        /\ (e.predicted \in {"Neutral", "Error"} /\ KnownLabel(e.true_label)) =>
              InWrong(results, e)
        /\ (\/ e.predicted = "Positive" /\ e.true_label = POS_LABEL
            \/ e.predicted = "Negative" /\ e.true_label = NEG_LABEL) =>
              ~ InWrong(results, e)

\* the bucket table of the evaluation
Bucket(predicted, lab) ==
    CASE predicted = "Positive" /\ lab = POS_LABEL -> "TP"
      [] predicted = "Negative" /\ lab = NEG_LABEL -> "TN"
      [] predicted = "Positive" /\ lab = NEG_LABEL -> "FP"
      [] predicted = "Negative" /\ lab = POS_LABEL -> "FN"
      [] predicted = "Neutral" /\ lab = POS_LABEL -> "FN"
      [] predicted = "Neutral" /\ lab = NEG_LABEL -> "FP"

Grew(old, new, hit) == new = old + (IF hit THEN 1 ELSE 0)

\* C3: a case with a Pozitif/Negatif label predicted Positive, Negative or
\* Neutral increments exactly the count the table names, by one, and leaves
\* the other three counts unchanged.
C3_BucketTable ==
    [][ (Stepped /\ Len(results'.predictions) = i'
           /\ KnownLabel(test_data[i'][2])
           /\ Entry(results', i').predicted \in {"Positive", "Negative", "Neutral"}) =>
          LET b == Bucket(Entry(results', i').predicted, test_data[i'][2]) IN
          /\ Grew(results.DP, results'.DP, b = "TP")
          /\ Grew(results.DN, results'.DN, b = "TN")
          /\ Grew(results.YP, results'.YP, b = "FP")
          /\ Grew(results.YN, results'.YN, b = "FN")
      ]_vars

C3_Witness ==
    /\ pc = "done"
    /\ Len(results.predictions) = 2
    /\ Entry(results, 1).predicted = "Neutral"
    /\ Entry(results, 1).true_label = NEG_LABEL
    /\ Entry(results, 2).predicted = "Negative"
    /\ Entry(results, 2).true_label = POS_LABEL
    /\ results.YP = 1
    /\ results.YN = 1

InUnit(m) == m.den > 0 /\ 0 <= m.num /\ m.num <= m.den

\* C8: the metrics never fail on a division: each is 0 when its own
\* denominator is 0, otherwise it is its ratio, whose numerator does not
\* exceed the denominator, so each lies in [0,1].
C8_MetricsDefined ==
    pc \in {"done", "failed"} =>
      /\ pc = "done"
      /\ \A m \in {metrics.Accuracy, metrics.Precision, metrics.Recall, metrics.F1} : InUnit(m)
      /\ IF Total(results) = 0 THEN metrics.Accuracy = Zero
         ELSE metrics.Accuracy.num * Total(results) = (results.DP + results.DN) * metrics.Accuracy.den
      /\ IF results.DP + results.YP = 0 THEN metrics.Precision = Zero
         ELSE metrics.Precision.num * (results.DP + results.YP) = results.DP * metrics.Precision.den
      /\ IF results.DP + results.YN = 0 THEN metrics.Recall = Zero
         ELSE metrics.Recall.num * (results.DP + results.YN) = results.DP * metrics.Recall.den
      /\ IF metrics.Precision = Zero /\ metrics.Recall = Zero THEN metrics.F1 = Zero
         ELSE metrics.F1.num * (2 * results.DP + results.YP + results.YN)
                = 2 * results.DP * metrics.F1.den

C8_Witness ==
    /\ pc = "done"
    /\ results.DN > 0
    /\ results.DP + results.YP = 0
    /\ metrics.Precision = Zero
    /\ metrics.Accuracy.num > 0

IsPrefix(s, t) == Len(s) <= Len(t) /\ SubSeq(t, 1, Len(s)) = s

\* C10: every iteration, whatever the prediction and the label, appends exactly
\* one entry to predictions, decreases no count and leaves the existing entries
\* of predictions and wrong_predictions as they were; after k cases predictions
\* holds the k cases in input order.
C10_AppendOnly ==
    [][ Stepped =>
          /\ Len(results'.predictions) = Len(results.predictions) + 1
          /\ IsPrefix(results.predictions, results'.predictions)
          /\ IsPrefix(results.wrong_predictions, results'.wrong_predictions)
          /\ results'.DP >= results.DP /\ results'.DN >= results.DN
          /\ results'.YP >= results.YP /\ results'.YN >= results.YN
          /\ Len(results'.predictions) = i'
          /\ \A k \in 1..i' :
                /\ Entry(results', k).text = test_data[k][1]
                /\ Entry(results', k).true_label = test_data[k][2]
      ]_vars

C10_Witness ==
    /\ pc = "evaluate"
    /\ i = 2
    /\ Len(results.predictions) = 2
    /\ Entry(results, 1).predicted = "Error"
    /\ Entry(results, 2).predicted = "Neutral"
    /\ Entry(results, 2).true_label = "Notr"
    /\ Len(results.wrong_predictions) = 1

====
